---- MODULE Spec2Model ----
(***************************************************************************)
(* The machine lifecycle of app.py: the request handlers new_machine and   *)
(* stop_machine, the background threads they start for the three backends  *)
(* (docker, libvirt, openstack), and the startup pass clean_up_db; and the *)
(* data transfers: the handlers data and dismiss_datatransferjob and the   *)
(* copy thread start_data_transfer.                                        *)
(*                                                                         *)
(* Spec is the machine lifecycle from an empty database. JobSpec is the    *)
(* data transfers into one machine at rest. DispatchSpec is the            *)
(* hand-over of work from the handlers to their threads. ShareSpec is the  *)
(* renaming and sharing of one machine at rest (rename_machine,            *)
(* share_accept, share_revoke). OptionsSpec is the limits the container    *)
(* backend works out from a template. RenameSpec is two rename requests    *)
(* handled at the same time, on two machines at rest. TeardownSpec is the  *)
(* destroy threads of one machine at rest together with the instance that  *)
(* the backend runs for it. VolumeSpec is the choice of the volumes that   *)
(* the hypervisor teardown deletes. JsonSpec is the JSON field of the      *)
(* admin forms, from a value to its text and back.                         *)
(*                                                                         *)
(* Every background thread works on its own database session: it loads the *)
(* Machine row once, assigns attributes on the loaded object and commits.  *)
(* A commit writes exactly the attributes whose assigned value differs     *)
(* from the loaded one (the ORM's unit of work), so concurrent threads     *)
(* overwrite each other column by column.                                  *)
(***************************************************************************)
EXTENDS Naturals, Integers, Sequences, FiniteSets, Bags, TLC

\* ---- bounds of the model ----
MaxMachines == 1
MaxTasks == 2
MaxPolls == 1
MaxJobs == 1
MaxRevokes == 2
MaxCores == 8
MaxMemoryGb == 16
MaxRequests == 2
MaxJsonDepth == 2

\* ---- the data model ----
Users == {"alice", "bob", "admin"}

\* the users who ask for machines: the owner of every machine is alice, bob is
\* a stranger to it and admin its administrator
Creators == {"alice"}

is_admin(u) == u = "admin"

Types == {"docker", "libvirt", "openstack"}

\* MachineTemplate.type is a free string column: the three kinds the handlers
\* know and one they do not
TemplateTypes == Types \cup {"lxd"}

MachineState == {"PROVISIONING", "READY", "FAILED", "DELETING", "DELETED"}

\* the address a backend hands to the instance of machine mid
Addr(mid) == <<"10.0.0.1", "10.0.0.2", "10.0.0.3", "10.0.0.4">>[mid]

\* the name reverse DNS knows for an address
HostOf(ip) == "host-" \o ip

\* the DataSource table, and User.data_sources: admin sees every source
DataSources == {1, 2}

data_sources(u) == IF u \in {"alice", "bob"} THEN {1} ELSE {}

DataTransferJobState == {"RUNNING", "DONE", "FAILED", "HIDDEN"}

StartFns == {"docker_start_container", "libvirt_start_vm", "openstack_start_vm"}

StopFns == {"docker_stop_container", "libvirt_stop_vm", "openstack_stop_vm"}

VARIABLES
    machines,   \* the Machine table: row id -> row
    tasks,      \* the background threads that are alive (a bag of thread states)
    phase,      \* "startup": main() has not yet run clean_up_db; "serving"
    event,      \* what the last step reported: an HTTP response, the end of a
                \* thread or a timed-out poll; NoEvent after any other step
    jobs,       \* the DataTransferJob table: row id -> row
    copies,     \* the copy threads that are alive (a set of thread states)
    written,    \* history: job id -> the outcomes (DONE, FAILED) ever written to it
    requests,   \* the rename requests in flight: the handlers that have made
                \* their checks and not yet committed (a set of handler states)
    instances   \* the backend: machine id -> the container, domain or server
                \* made for it, where the model follows the backend

vars == <<machines, tasks, phase, event, jobs, copies, written, requests, instances>>

\* the variables of the data transfers
transfer == <<jobs, copies, written>>

\* the variables of the specifications that split a handler or follow the
\* backend
outside == <<requests, instances>>

\* `x in list`
In(x, list) == \E i \in DOMAIN list : list[i] = x

MIds == 1..MaxMachines

Exists(mid) == mid \in DOMAIN machines

NoRow ==
    [state |-> "-", ip |-> "", hostname |-> "", owner |-> "-", type |-> "-",
     shared_users |-> <<>>, name |-> <<>>, token |-> <<0, 0>>]

\* ---- strings ----
\* A string whose characters matter is a sequence of one-character strings.
Digits == <<"0", "1", "2", "3", "4", "5", "6", "7", "8", "9">>

Letters == {"a", "b", "c", "d", "e", "i", "l", "m", "n", "w"}

\* str.isalnum() of one character
isalnum(ch) == ch \in Letters \/ \E i \in DOMAIN Digits : Digits[i] = ch

DigitValue(ch) == (CHOOSE i \in DOMAIN Digits : Digits[i] = ch) - 1

\* str(n) of a natural number: its decimal digits
RECURSIVE str(_)
str(n) == IF n < 10 THEN <<Digits[n + 1]>> ELSE Append(str(n \div 10), Digits[(n % 10) + 1])

\* int(s) of a form field: the number, or a ValueError
RECURSIVE DecimalValue(_)
DecimalValue(s) ==
    IF s = <<>> THEN 0
    ELSE 10 * DecimalValue(SubSeq(s, 1, Len(s) - 1)) + DigitValue(s[Len(s)])

int(s) ==
    IF s # <<>> /\ \A i \in DOMAIN s : \E d \in DOMAIN Digits : Digits[d] = s[i]
    THEN [raised |-> FALSE, value |-> DecimalValue(s)]
    ELSE [raised |-> TRUE, value |-> 0]

\* the user names, spelled out
Chars(u) ==
    CASE u = "alice" -> <<"a", "l", "i", "c", "e">>
      [] u = "bob" -> <<"b", "o", "b">>
      [] u = "admin" -> <<"a", "d", "m", "i", "n">>

\* mk_safe_machine_name at the time machine mid is made: the user name, "-"
\* and six characters for the date and time
mk_safe_machine_name(u, mid) ==
    Chars(u) \o <<"-", "6", "A", "1", "0", "0", Digits[mid + 1]>>

\* gen_token(16) for a machine whose token is `old`: sixteen characters drawn
\* by secrets.choice, taken to be a token that no machine has held before. A
\* token is the pair of the machine it was drawn for and its number there.
gen_token(old) == <<old[1], old[2] + 1>>

Ev(op, user, mid, out) == [op |-> op, user |-> user, mid |-> mid, out |-> out]

NoEvent == Ev("-", "-", 0, "-")

\* ---- the store ----

\* db.session.commit() of a session that loaded `loaded` and assigned the
\* attributes of `assigned`: only attributes with a net change are written.
Flush(db, loaded, assigned) ==
    [a \in DOMAIN db |->
        IF a \in DOMAIN assigned /\ assigned[a] # loaded[a]
        THEN assigned[a] ELSE db[a]]

Commit(mid, loaded, assigned) ==
    [machines EXCEPT ![mid] = Flush(machines[mid], loaded, assigned)]

\* ---- threads ----
NewTask(fn, mid) ==
    [fn |-> fn, mid |-> mid, pc |-> "load", row |-> NoRow, polls |-> 0, net |-> "-"]

Alive == BagToSet(tasks)

Replace(t, t2) == (tasks (-) SetToBag({t})) (+) SetToBag({t2})

Finish(t) == tasks (-) SetToBag({t})

TasksOf(mid) == {t \in Alive : t.mid = mid}

NumTasksOf(mid) ==
    LET ts == TasksOf(mid)
        RECURSIVE Sum(_)
        Sum(S) == IF S = {} THEN 0
                  ELSE LET x == CHOOSE y \in S : TRUE
                       IN CopiesIn(x, tasks) + Sum(S \ {x})
    IN Sum(ts)

StartFnOf(type) ==
    CASE type = "docker" -> "docker_start_container"
      [] type = "libvirt" -> "libvirt_start_vm"
      [] type = "openstack" -> "openstack_start_vm"

StopFnOf(type) ==
    CASE type = "docker" -> "docker_stop_container"
      [] type = "libvirt" -> "libvirt_stop_vm"
      [] type = "openstack" -> "openstack_stop_vm"

Init ==
    /\ machines = <<>>
    /\ tasks = EmptyBag
    /\ phase = "startup"
    /\ event = NoEvent
    /\ jobs = <<>>
    /\ copies = {}
    /\ written = <<>>
    /\ requests = {}
    /\ instances = <<>>

\* ---- startup ----

\* a pass that looks for the wrong transient state
clean_up_row_wrong_state(row) ==
    IF row.state = "DELETING" THEN [row EXCEPT !.state = "FAILED"] ELSE row

\* a pass that fails the rows in both transient states
clean_up_row_all_transient(row) ==
    IF row.state \in {"PROVISIONING", "DELETING"}
    THEN [row EXCEPT !.state = "FAILED"] ELSE row

clean_up_row(row) ==
    IF row.state = "PROVISIONING" THEN [row EXCEPT !.state = "FAILED"] ELSE row

\* a pass that fails the finished transfers
clean_up_job_wrong_state(job) ==
    IF job.state = "DONE" THEN [job EXCEPT !.state = "FAILED"] ELSE job

\* a pass that fails the dismissed transfers as well
clean_up_job_hidden_too(job) ==
    IF job.state \in {"RUNNING", "HIDDEN"}
    THEN [job EXCEPT !.state = "FAILED"] ELSE job

clean_up_job(job) ==
    IF job.state = "RUNNING" THEN [job EXCEPT !.state = "FAILED"] ELSE job

clean_up_db ==
    /\ phase = "startup"
    /\ machines' = [mid \in DOMAIN machines |-> clean_up_row(machines[mid])]
    /\ phase' = "serving"
    /\ event' = Ev("clean_up_db", "-", 0,
                   IF \E mid \in DOMAIN machines : machines[mid].state = "PROVISIONING"
                   THEN "warning" ELSE "-")
    /\ jobs' = [jid \in DOMAIN jobs |-> clean_up_job(jobs[jid])]
    /\ written' = [jid \in DOMAIN jobs |->
                      IF clean_up_job(jobs[jid]).state # jobs[jid].state
                      THEN written[jid] \cup {clean_up_job(jobs[jid]).state}
                      ELSE written[jid]]
    /\ UNCHANGED <<tasks, copies, outside>>

\* a start of main() in a process whose threads are still running
restart_keeps_threads ==
    /\ phase = "serving"
    /\ phase' = "startup"
    /\ event' = Ev("restart", "-", 0, "-")
    /\ UNCHANGED <<machines, tasks, jobs, copies, written, outside>>

\* the process is stopped and started again: its threads are gone, main() runs
restart ==
    /\ phase = "serving"
    /\ phase' = "startup"
    /\ tasks' = EmptyBag
    /\ copies' = {}
    /\ event' = Ev("restart", "-", 0, "-")
    /\ requests' = {}
    /\ UNCHANGED <<machines, jobs, written, instances>>

\* ---- request handlers ----

new_machine(u, type) ==
    /\ phase = "serving"
    /\ Len(machines) < MaxMachines
    /\ BagCardinality(tasks) < MaxTasks
    /\ LET mid == Len(machines) + 1
           m == [state |-> "PROVISIONING", ip |-> "", hostname |-> "",
                 owner |-> u, type |-> type, shared_users |-> <<>>,
                 name |-> mk_safe_machine_name(u, mid),
                 token |-> gen_token(<<mid, 0>>)]
       IN /\ machines' = Append(machines, m)
          /\ tasks' = IF type \in Types
                      THEN tasks (+) SetToBag({NewTask(StartFnOf(type), mid)})
                      ELSE tasks
          /\ event' = Ev("new_machine", u, mid, "302")
    /\ UNCHANGED <<phase, transfer, outside>>

\* a handler without the ownership check
may_stop_unchecked(u, row) == TRUE

may_stop(u, row) == is_admin(u) \/ u = row.owner

\* a handler that starts the thread without marking the row
stop_machine_unmarked == <<>>

\* machine.state = MachineState.DELETING
stop_machine_marked == [state |-> "DELETING"]

stop_machine(u, mid) ==
    /\ phase = "serving"
    /\ IF ~Exists(mid)
       THEN /\ event' = Ev("stop_machine", u, mid, "404")
            /\ UNCHANGED <<machines, tasks>>
       ELSE IF ~may_stop(u, machines[mid])
       THEN /\ event' = Ev("stop_machine", u, mid, "403")
            /\ UNCHANGED <<machines, tasks>>
       ELSE /\ BagCardinality(tasks) < MaxTasks
            /\ machines' = Commit(mid, machines[mid], stop_machine_marked)
            /\ tasks' = IF machines[mid].type \in Types
                        THEN tasks (+) SetToBag({NewTask(StopFnOf(machines[mid].type), mid)})
                        ELSE tasks
            /\ event' = Ev("stop_machine", u, mid, "302")
    /\ UNCHANGED <<phase, transfer, outside>>

\* ---- background threads: shared steps ----

\* What a thread keeps of the row it loaded: the columns whose loaded value
\* can be equal to a value the thread assigns later, which is what decides
\* whether its commit writes the column. A destroy thread assigns state only.
\* A create thread assigns READY or FAILED to state, values no create thread
\* can have loaded (it is the only writer of them while the process runs), and
\* an address and a host name.
Columns(fn, row) ==
    IF fn \in StopFns
    THEN [NoRow EXCEPT !.state = row.state, !.ip = row.ip, !.name = row.name]
    ELSE [NoRow EXCEPT !.ip = row.ip, !.hostname = row.hostname]

\* m = Machine.query.filter_by(id=m_id).first()
Loaded(t) == [t EXCEPT !.row = Columns(t.fn, machines[t.mid]), !.pc = "run"]

\* The destroy threads load the row in a step of their own. The create
\* threads load it together with their first backend call: what they assign
\* (READY, FAILED, an address, a host name) differs from every value the row
\* can hold while they run, so the moment of their load is not observable.
load(t) ==
    /\ t.fn \in StopFns
    /\ t.pc = "load"
    /\ tasks' = Replace(t, Loaded(t))
    /\ event' = NoEvent
    /\ UNCHANGED <<machines, phase, transfer, outside>>

\* the thread assigns `assigned`, commits and ends
CommitAndEnd(t, assigned, out) ==
    /\ machines' = Commit(t.mid, t.row, assigned)
    /\ tasks' = Finish(t)
    /\ event' = Ev(t.fn, "-", t.mid, out)
    /\ UNCHANGED <<phase, transfer, outside>>

\* the thread loads the row, fails in its first backend call, assigns
\* `assigned` in its except path, commits and ends
LoadCommitAndEnd(t, assigned, out) ==
    /\ machines' = Commit(t.mid, Loaded(t).row, assigned)
    /\ tasks' = Finish(t)
    /\ event' = Ev(t.fn, "-", t.mid, out)
    /\ UNCHANGED <<phase, transfer, outside>>

\* the thread ends without a commit
Return(t, out) ==
    /\ tasks' = Finish(t)
    /\ event' = Ev(t.fn, "-", t.mid, out)
    /\ UNCHANGED <<machines, phase, transfer, outside>>

\* the thread goes on as t2
Goto(t, t2, out) ==
    /\ tasks' = Replace(t, t2)
    /\ event' = IF out = "-" THEN NoEvent ELSE Ev(t.fn, "-", t.mid, out)
    /\ UNCHANGED <<machines, phase, transfer, outside>>

\* one more round of a poll loop: time.sleep and the next query
Poll(t) == [t EXCEPT !.polls = IF t.polls < MaxPolls THEN t.polls + 1 ELSE t.polls]

\* ---- container backend ----
\* net is what the backend will do for the new instance: "ok", or "noip" when
\* it never reports an address.

\* a success path that commits READY without the address
docker_ready_no_ip(ip) == [state |-> "READY"]

\* docker_start_container, the assignments of the success path
docker_ready(ip) == [ip |-> ip, state |-> "READY"]

\* an except path that puts the row back to the state of a new machine
docker_failed_reset == [state |-> "PROVISIONING", ip |-> ""]

\* docker_start_container, the assignments of the except path
docker_failed == [state |-> "FAILED", ip |-> ""]

\* a create thread whose except path ends where a clean-up call raises
docker_start_container_cleanup_escapes(t) ==
    /\ t.fn = "docker_start_container"
    /\ \/ /\ t.pc = "load"
          /\ \/ \E net \in {"ok", "noip"} :
                  Goto(t, [Loaded(t) EXCEPT !.pc = "wait_ip", !.net = net], "-")
             \/ Return(t, "error")
       \/ /\ t.pc = "wait_ip"
          /\ \/ /\ t.net = "ok"
                /\ \/ CommitAndEnd(t, docker_ready(Addr(t.mid)), "ready")
                   \/ CommitAndEnd(t, docker_failed, "cleaned")
                   \/ Return(t, "cleanup_error")
             \/ /\ t.net = "noip"
                /\ Goto(t, Poll(t), "-")

\* The except path calls container.stop() and container.remove(), each in a
\* try block of its own, before it assigns. "error": the thread failed before
\* `container` was bound, so both calls raise; "cleaned": it failed later and
\* both calls returned; "cleanup_error": it failed later and a call raised.
docker_start_container(t) ==
    /\ t.fn = "docker_start_container"
    /\ \/ /\ t.pc = "load"
          /\ \/ \E net \in {"ok", "noip"} :
                  Goto(t, [Loaded(t) EXCEPT !.pc = "wait_ip", !.net = net], "-")
             \/ LoadCommitAndEnd(t, docker_failed, "error")
       \/ /\ t.pc = "wait_ip"
          /\ \/ /\ t.net = "ok"
                /\ \/ CommitAndEnd(t, docker_ready(Addr(t.mid)), "ready")
                   \/ \E out \in {"cleaned", "cleanup_error"} :
                        CommitAndEnd(t, docker_failed, out)
             \/ /\ t.net = "noip"
                /\ Goto(t, Poll(t), "-")

docker_stop_container(t) ==
    /\ t.fn = "docker_stop_container"
    /\ t.pc = "run"
    /\ \E out \in {"stopped", "error"} :
          CommitAndEnd(t, [state |-> "DELETED"], out)

\* ---- hypervisor backend ----
\* net: "ok"; "stuck" when the domain never reaches the running state; "noip"
\* when libvirt_get_vm_ip never finds an address (the clone failed and there
\* is no such domain, or the domain never gets a lease).

\* a success path that commits READY and leaves the address for later
libvirt_ready_state_first(ip) == [state |-> "READY"]

libvirt_ready(ip) == [ip |-> ip, state |-> "READY"]

libvirt_failed == [state |-> "FAILED"]

libvirt_start_vm(t) ==
    /\ t.fn = "libvirt_start_vm"
    /\ \/ /\ t.pc = "load"
          /\ \/ \E net \in {"ok", "stuck", "noip"} :
                  Goto(t, [Loaded(t) EXCEPT !.pc = "wait_vm", !.net = net], "-")
             \/ LoadCommitAndEnd(t, libvirt_failed, "error")
       \/ /\ t.pc = "wait_vm"
          /\ \/ /\ t.net \in {"ok", "noip"}
                /\ Goto(t, [t EXCEPT !.pc = "wait_ip"], "-")
             \/ /\ t.net = "ok"
                /\ CommitAndEnd(t, libvirt_failed, "error")
             \/ /\ t.net = "stuck"
                /\ Goto(t, Poll(t), "-")
       \/ /\ t.pc = "wait_ip"
          /\ \/ /\ t.net = "ok"
                /\ \/ CommitAndEnd(t, libvirt_ready(Addr(t.mid)), "ready")
                   \/ CommitAndEnd(t, libvirt_failed, "error")
             \/ /\ t.net = "noip"
                /\ Goto(t, Poll(t), "-")

libvirt_stop_vm(t) ==
    /\ t.fn = "libvirt_stop_vm"
    /\ t.pc = "run"
    /\ \E out \in {"stopped", "error"} :
          CommitAndEnd(t, [state |-> "DELETED"], out)

\* ---- cloud backend ----

\* get_hostname(ip) when gethostbyaddr answers (dns = TRUE) or raises: the
\* except branch calls logging.Exception, which is not an attribute of the
\* logging module, so the handler itself raises AttributeError.
get_hostname(ip, dns) ==
    IF dns THEN [raised |-> FALSE, value |-> HostOf(ip)]
    ELSE [raised |-> TRUE, value |-> ""]

openstack_ready(ip, hostname) == [ip |-> ip, hostname |-> hostname, state |-> "READY"]

\* an except path that logs the error and writes nothing
openstack_failed_silent(ip) == <<>>

\* the except path commits what the try block had assigned so far: nothing,
\* or the address
openstack_failed(ip) ==
    IF ip = "" THEN [state |-> "FAILED"] ELSE [ip |-> ip, state |-> "FAILED"]

\* openstack_wait_for_volume / openstack_wait_for_vm_state and the call that
\* follows: the value the poll returns (the details, or None on timeout) is
\* dropped by the caller, which goes on to `next` in both cases
openstack_wait(t, next, what) ==
    \/ Goto(t, [t EXCEPT !.pc = next, !.polls = 0], "-")
    \/ /\ t.polls < MaxPolls
       /\ Goto(t, Poll(t), "-")
    \/ /\ t.polls >= MaxPolls
       /\ Goto(t, [t EXCEPT !.pc = next, !.polls = 0], what \o "_timeout")
    \/ CommitAndEnd(t, openstack_failed(""), "error")

openstack_start_vm(t) ==
    /\ t.fn = "openstack_start_vm"
    /\ \/ /\ t.pc = "load"
          /\ \/ Return(t, "not_found")
             \/ Goto(t, [Loaded(t) EXCEPT !.pc = "wait_volume"], "-")
             \/ LoadCommitAndEnd(t, openstack_failed(""), "error")
       \/ /\ t.pc = "wait_volume"
          /\ openstack_wait(t, "wait_active", "volume")
       \/ /\ t.pc = "wait_active"
          /\ openstack_wait(t, "wait_ip", "server")
       \/ /\ t.pc = "wait_ip"
          /\ \/ \E dns \in BOOLEAN :
                  LET ip == Addr(t.mid)
                      h == get_hostname(ip, dns)
                  IN IF h.raised
                     THEN CommitAndEnd(t, openstack_failed(ip), "dns_error")
                     ELSE CommitAndEnd(t, openstack_ready(ip, h.value), "ready")
             \/ /\ t.polls < MaxPolls
                /\ Goto(t, Poll(t), "-")
             \/ /\ t.polls >= MaxPolls
                /\ CommitAndEnd(t, openstack_failed(""), "ip_timeout")
             \/ CommitAndEnd(t, openstack_failed(""), "error")

openstack_stop_vm(t) ==
    /\ t.fn = "openstack_stop_vm"
    /\ t.pc = "run"
    /\ \E out \in {"stopped", "error"} :
          CommitAndEnd(t, [state |-> "DELETED"], out)

\* ---- the system ----

Step(t) ==
    \/ load(t)
    \/ docker_start_container(t)
    \/ docker_stop_container(t)
    \/ libvirt_start_vm(t)
    \/ libvirt_stop_vm(t)
    \/ openstack_start_vm(t)
    \/ openstack_stop_vm(t)

Next ==
    \/ clean_up_db
    \/ restart
    \/ \E u \in Creators, type \in Types : new_machine(u, type)
    \/ \E u \in Users, mid \in MIds : stop_machine(u, mid)
    \/ \E t \in Alive : load(t)
    \/ \E t \in Alive : docker_start_container(t)
    \/ \E t \in Alive : docker_stop_container(t)
    \/ \E t \in Alive : libvirt_start_vm(t)
    \/ \E t \in Alive : libvirt_stop_vm(t)
    \/ \E t \in Alive : openstack_start_vm(t)
    \/ \E t \in Alive : openstack_stop_vm(t)

Spec == Init /\ [][Next]_vars

\* the threads of every machine are scheduled again and again
FairSpec == Spec /\ \A mid \in MIds : WF_vars(\E t \in TasksOf(mid) : Step(t))

\* ---- data transfers ----

\* the rows of `data`: everything for the admin, their own stuff for the others
visible_sources(u) == IF is_admin(u) THEN DataSources ELSE data_sources(u)

\* a lookup that lists every machine to every user
visible_machines_of_anyone(u) == DOMAIN machines

visible_machines(u) ==
    IF is_admin(u)
    THEN {mid \in DOMAIN machines : machines[mid].state = "READY"}
    ELSE {mid \in DOMAIN machines :
             machines[mid].owner = u \/ In(u, machines[mid].shared_users)}

\* a form that offers the machines in every state
machine_choices_any_state(u) == visible_machines(u)

\* form.machine.choices
machine_choices(u) == {mid \in visible_machines(u) : machines[mid].state = "READY"}

\* form.validate_on_submit(): both select fields hold one of their choices
validate_on_submit(u, ds, mid) ==
    ds \in visible_sources(u) /\ mid \in machine_choices(u)

NoJob ==
    [state |-> "-", user |-> "-", data_source |-> 0, machine |-> 0, finish_date |-> "-"]

\* DataTransferJob(state=RUNNING, ...): finish_date takes its column default,
\* the time of the insert
new_job(u, ds, mid) ==
    [state |-> "RUNNING", user |-> u, data_source |-> ds, machine |-> mid,
     finish_date |-> "creation"]

NewCopy(jid) == [jid |-> jid, pc |-> "load", row |-> NoJob]

\* POST /data
data(u, ds, mid) ==
    /\ phase = "serving"
    /\ IF ~validate_on_submit(u, ds, mid)
       THEN /\ event' = Ev("data", u, mid, "invalid")
            /\ UNCHANGED transfer
       ELSE IF ~Exists(mid) \/ ds \notin DataSources
       THEN /\ event' = Ev("data", u, mid, "404")
            /\ UNCHANGED transfer
       ELSE IF mid \notin visible_machines(u) \/ ds \notin visible_sources(u)
       THEN /\ event' = Ev("data", u, mid, "403")
            /\ UNCHANGED transfer
       ELSE /\ Len(jobs) < MaxJobs
            /\ jobs' = Append(jobs, new_job(u, ds, mid))
            /\ written' = Append(written, {})
            /\ copies' = copies \cup {NewCopy(Len(jobs) + 1)}
            /\ event' = Ev("data", u, mid, "302")
    /\ UNCHANGED <<machines, tasks, phase, outside>>

\* GET /data: sorted_jobs, the jobs the page lists for u
sorted_jobs(u) ==
    {jid \in DOMAIN jobs : jobs[jid].user = u /\ jobs[jid].state # "HIDDEN"}

\* a handler that refuses a job that is hidden already
dismiss_once(u, jid) ==
    /\ phase = "serving"
    /\ IF jid \notin DOMAIN jobs \/ jobs[jid].state = "HIDDEN"
       THEN /\ event' = Ev("dismiss_datatransferjob", u, jid, "404")
            /\ UNCHANGED jobs
       ELSE /\ jobs' = [jobs EXCEPT ![jid] = Flush(@, @, [state |-> "HIDDEN"])]
            /\ event' = Ev("dismiss_datatransferjob", u, jid, "OK")
    /\ UNCHANGED <<machines, tasks, phase, copies, written, outside>>

dismiss_datatransferjob(u, jid) ==
    /\ phase = "serving"
    /\ IF jid \notin DOMAIN jobs
       THEN /\ event' = Ev("dismiss_datatransferjob", u, jid, "404")
            /\ UNCHANGED jobs
       ELSE /\ jobs' = [jobs EXCEPT ![jid] = Flush(@, @, [state |-> "HIDDEN"])]
            /\ event' = Ev("dismiss_datatransferjob", u, jid, "OK")
    /\ UNCHANGED <<machines, tasks, phase, copies, written, outside>>

\* do_rsync: True when the remote command exits with 0, False when
\* subprocess.run raises (non-zero exit, ssh failure, anything else)
do_rsync(exit) == exit = "0"

\* a thread that reports every transfer as done
job_outcome_always_done(result) == [finish_time |-> "completion", state |-> "DONE"]

\* start_data_transfer, the assignments after do_rsync: finish_time is not a
\* column of DataTransferJob
job_outcome(result) ==
    [finish_time |-> "completion", state |-> IF result THEN "DONE" ELSE "FAILED"]

start_data_transfer(c) ==
    /\ c \in copies
    /\ \/ /\ c.pc = "load"
          /\ copies' = (copies \ {c}) \cup {[c EXCEPT !.pc = "rsync", !.row = jobs[c.jid]]}
          /\ event' = NoEvent
          /\ UNCHANGED <<jobs, written>>
       \/ /\ c.pc = "rsync"
          /\ \E exit \in {"0", "23", "255"} :
               LET assigned == job_outcome(do_rsync(exit))
               IN /\ jobs' = [jobs EXCEPT ![c.jid] = Flush(@, c.row, assigned)]
                  /\ written' = [written EXCEPT ![c.jid] = @ \cup {assigned.state}]
                  /\ event' = Ev("start_data_transfer", "-", c.jid, exit)
          /\ copies' = copies \ {c}
    /\ UNCHANGED <<machines, tasks, phase, outside>>

\* the machines a transfer can meet: rows of alice in any state, the READY
\* ones shared with bob or with nobody
SettledRows(mid) ==
    {[state |-> st, ip |-> IF st = "READY" THEN Addr(mid) ELSE "",
      hostname |-> "", owner |-> "alice", type |-> "docker", shared_users |-> <<>>,
      name |-> mk_safe_machine_name("alice", mid), token |-> gen_token(<<mid, 0>>)] :
        st \in MachineState}
    \cup {[state |-> "READY", ip |-> Addr(mid), hostname |-> "", owner |-> "alice",
           type |-> "docker", shared_users |-> <<"bob">>,
           name |-> mk_safe_machine_name("alice", mid), token |-> gen_token(<<mid, 0>>)]}

\* the tables of at most MaxMachines settled rows
SettledTables ==
    UNION {{tb \in [1..n -> UNION {SettledRows(mid) : mid \in MIds}] :
               \A mid \in 1..n : tb[mid] \in SettledRows(mid)} : n \in 0..MaxMachines}

\* the transfers into one machine
JobInit ==
    /\ machines \in SettledTables
    /\ Len(machines) = 1
    /\ tasks = EmptyBag
    /\ phase = "startup"
    /\ event = NoEvent
    /\ jobs = <<>>
    /\ copies = {}
    /\ written = <<>>
    /\ requests = {}
    /\ instances = <<>>

JIds == 1..MaxJobs

\* the ids a request can name: the rows and one id that no row has
SourceIds == DataSources \cup {3}

MachineIds == 1..(Len(machines) + 1)

JobNext ==
    \/ clean_up_db
    \/ restart
    \/ \E u \in Users, ds \in SourceIds, mid \in MachineIds : data(u, ds, mid)
    \/ \E u \in Users, jid \in JIds : dismiss_datatransferjob(u, jid)
    \/ \E c \in copies : start_data_transfer(c)

JobSpec == JobInit /\ [][JobNext]_vars

\* The hand-over of work to threads: the three handlers that start a thread,
\* from the empty table and from every settled machine; the threads they
\* start are not scheduled.
DispatchInit ==
    /\ machines \in SettledTables
    /\ Len(machines) <= 1
    /\ tasks = EmptyBag
    /\ phase = "startup"
    /\ event = NoEvent
    /\ jobs = <<>>
    /\ copies = {}
    /\ written = <<>>
    /\ requests = {}
    /\ instances = <<>>

DispatchNext ==
    \/ clean_up_db
    \/ restart
    \/ \E u \in Creators, type \in TemplateTypes : new_machine(u, type)
    \/ \E u \in Users, mid \in MIds : stop_machine(u, mid)
    \/ \E u \in Users, ds \in SourceIds, mid \in MachineIds : data(u, ds, mid)

DispatchSpec == DispatchInit /\ [][DispatchNext]_vars

\* ---- renaming and sharing ----

\* contains_non_alphanumeric_chars: a character that is neither alphanumeric
\* nor "-"
contains_non_alphanumeric_chars(string) ==
    \E i \in DOMAIN string : ~isalnum(string[i]) /\ string[i] # "-"

\* a handler that resets the state along with the name
rename_assigned_and_state(new) == [name |-> new, state |-> "PROVISIONING"]

\* rename_machine: machine.name = machine_new_name
rename_assigned(new) == [name |-> new]

\* POST /rename_machine with the form fields machine_id and machine_new_name
rename_machine(u, machine_id, machine_new_name) ==
    /\ phase = "serving"
    /\ LET id == int(machine_id)
           Answer(out) ==
               /\ event' = Ev("rename_machine", u, id.value, out)
               /\ UNCHANGED machines
       IN IF machine_new_name = <<>> \/ machine_id = <<>>
          THEN Answer("invalid")
          ELSE IF Len(machine_new_name) <= 3 \/ Len(machine_new_name) > 80
          THEN Answer("length")
          ELSE IF contains_non_alphanumeric_chars(machine_new_name)
          THEN Answer("chars")
          ELSE IF id.raised
          THEN Answer("invalid")
          ELSE IF \E mid \in DOMAIN machines : machines[mid].name = machine_new_name
          THEN Answer("taken")
          ELSE IF ~Exists(id.value)
          THEN Answer("500")
          ELSE /\ machines' = Commit(id.value, machines[id.value],
                                     rename_assigned(machine_new_name))
               /\ event' = Ev("rename_machine", u, id.value, "302")
    /\ UNCHANGED <<tasks, phase, transfer, outside>>

\* the machine that holds the token, Machine.query.filter_by(token=...).first()
by_token(tk) ==
    IF \E mid \in DOMAIN machines : machines[mid].token = tk
    THEN CHOOSE mid \in DOMAIN machines :
            /\ machines[mid].token = tk
            /\ \A m2 \in DOMAIN machines : machines[m2].token = tk => mid <= m2
    ELSE 0

\* the response to a share link, with the token the link carried
EvToken(u, mid, out, tk) ==
    [op |-> "share_accept", user |-> u, mid |-> mid, out |-> out, token |-> tk]

\* a handler that adds whoever follows the link
share_accept_unchecked(u, machine_token) ==
    /\ phase = "serving"
    /\ LET mid == by_token(machine_token)
       IN IF mid = 0
          THEN /\ event' = EvToken(u, 0, "404", machine_token)
               /\ UNCHANGED machines
          ELSE /\ Len(machines[mid].shared_users) < Cardinality(Users)
               /\ machines' = Commit(mid, machines[mid],
                      [shared_users |-> Append(machines[mid].shared_users, u)])
               /\ event' = EvToken(u, mid, "302", machine_token)
    /\ UNCHANGED <<tasks, phase, transfer, outside>>

\* GET /share_accept/<machine_token>
share_accept(u, machine_token) ==
    /\ phase = "serving"
    /\ LET mid == by_token(machine_token)
       IN IF mid = 0
          THEN /\ event' = EvToken(u, 0, "404", machine_token)
               /\ UNCHANGED machines
          ELSE IF u = machines[mid].owner
          THEN /\ event' = EvToken(u, mid, "own", machine_token)
               /\ UNCHANGED machines
          ELSE IF In(u, machines[mid].shared_users)
          THEN /\ event' = EvToken(u, mid, "already", machine_token)
               /\ UNCHANGED machines
          ELSE /\ machines' = Commit(mid, machines[mid],
                      [shared_users |-> Append(machines[mid].shared_users, u)])
               /\ event' = EvToken(u, mid, "302", machine_token)
    /\ UNCHANGED <<tasks, phase, transfer, outside>>

\* a handler that drops the shares and keeps the token
share_revoke_keeps_token(row) == [shared_users |-> <<>>]

\* share_revoke: machine.token = gen_token(16); machine.shared_users = []
share_revoke_assigned(row) == [token |-> gen_token(row.token), shared_users |-> <<>>]

\* GET /share_revoke/<machine_id>. A user who is not the owner gets no
\* change: the handler answers before any assignment.
share_revoke(u, mid) ==
    /\ phase = "serving"
    /\ IF ~Exists(mid)
       THEN /\ event' = Ev("share_revoke", u, mid, "404")
            /\ UNCHANGED machines
       ELSE IF u # machines[mid].owner
       THEN /\ event' = Ev("share_revoke", u, mid, "refused")
            /\ UNCHANGED machines
       ELSE /\ machines[mid].token[2] <= MaxRevokes
            /\ machines' = Commit(mid, machines[mid], share_revoke_assigned(machines[mid]))
            /\ event' = Ev("share_revoke", u, mid, "302")
    /\ UNCHANGED <<tasks, phase, transfer, outside>>

\* the form values a rename request can carry
FormIds == {<<>>, <<"1">>, <<"2">>, <<"x">>}

NewNames ==
    {<<>>, <<"w", "e", "b">>, <<"w", "e", "b", "1">>, <<"l", "a", "b", "-", "2">>,
     <<"w", "e", "b", "_", "1">>, [i \in 1..81 |-> "a"]}

\* the tokens a share link can carry: every token drawn so far or later
Tokens == {<<mid, n>> : mid \in MIds, n \in 1..(MaxRevokes + 1)}

\* renaming and sharing one machine at rest
ShareInit ==
    /\ machines \in SettledTables
    /\ Len(machines) = 1
    /\ tasks = EmptyBag
    /\ phase = "startup"
    /\ event = NoEvent
    /\ jobs = <<>>
    /\ copies = {}
    /\ written = <<>>
    /\ requests = {}
    /\ instances = <<>>

ShareNext ==
    \/ clean_up_db
    \/ restart
    \/ \E u \in Users, machine_id \in FormIds, new \in NewNames :
          rename_machine(u, machine_id, new)
    \/ \E u \in Users, tk \in Tokens : share_accept(u, tk)
    \/ \E u \in Users, mid \in MachineIds : share_revoke(u, mid)

ShareSpec == ShareInit /\ [][ShareNext]_vars

\* ---- rename requests handled at the same time ----
\* The server handles requests in several threads. A rename handler reads
\* the machine and looks for a machine of the new name, then assigns and
\* commits: two steps, with other handlers in between.

\* rename_machine up to the query for the new name: the handler answers, or
\* goes on with the row it has loaded, of which the model keeps the column
\* that the handler assigns
rename_machine_check(u, machine_id, machine_new_name) ==
    /\ phase = "serving"
    /\ LET id == int(machine_id)
           Answer(out) ==
               /\ event' = Ev("rename_machine", u, id.value, out)
               /\ UNCHANGED requests
       IN IF machine_new_name = <<>> \/ machine_id = <<>>
          THEN Answer("invalid")
          ELSE IF Len(machine_new_name) <= 3 \/ Len(machine_new_name) > 80
          THEN Answer("length")
          ELSE IF contains_non_alphanumeric_chars(machine_new_name)
          THEN Answer("chars")
          ELSE IF id.raised
          THEN Answer("invalid")
          ELSE IF \E mid \in DOMAIN machines : machines[mid].name = machine_new_name
          THEN Answer("taken")
          ELSE IF ~Exists(id.value)
          THEN Answer("500")
          ELSE /\ Cardinality(requests) < MaxRequests
               /\ requests' = requests \cup
                      {[user |-> u, mid |-> id.value,
                        row |-> [NoRow EXCEPT !.name = machines[id.value].name],
                        machine_new_name |-> machine_new_name]}
               /\ event' = NoEvent
    /\ UNCHANGED <<machines, tasks, phase, transfer, instances>>

\* rename_machine from the assignment on: machine.name = machine_new_name,
\* the commit and the redirect
rename_machine_commit(r) ==
    /\ phase = "serving"
    /\ machines' = Commit(r.mid, r.row, rename_assigned(r.machine_new_name))
    /\ requests' = requests \ {r}
    /\ event' = Ev("rename_machine", r.user, r.mid, "302")
    /\ UNCHANGED <<tasks, phase, transfer, instances>>

\* two machines at rest, under the names they were made with
RenameInit ==
    /\ machines \in {<<r1, r2>> : r1 \in SettledRows(1), r2 \in SettledRows(2)}
    /\ \A mid \in DOMAIN machines : machines[mid].state \in {"READY", "FAILED"}
    /\ tasks = EmptyBag
    /\ phase = "startup"
    /\ event = NoEvent
    /\ jobs = <<>>
    /\ copies = {}
    /\ written = <<>>
    /\ requests = {}
    /\ instances = <<>>

RenameNext ==
    \/ clean_up_db
    \/ restart
    \/ \E u \in Creators, machine_id \in FormIds, new \in NewNames :
          rename_machine_check(u, machine_id, new)
    \/ \E r \in requests : rename_machine_commit(r)

RenameSpec == RenameInit /\ [][RenameNext]_vars

\* ---- the destroy threads and the backend ----
\* One machine at rest whose instance runs, under the name the machine was
\* made with and at the address the backend gave it. The destroy threads
\* look the instance up: the container by the address in the row they
\* loaded, the domain and the server by the name in it.

\* the rows of machine mid: READY, or FAILED by the startup pass after the
\* process stopped while the create thread waited for the address
RunningRows(mid) ==
    {[state |-> "READY", ip |-> Addr(mid),
      hostname |-> IF type = "openstack" THEN HostOf(Addr(mid)) ELSE "",
      owner |-> "alice", type |-> type, shared_users |-> <<>>,
      name |-> mk_safe_machine_name("alice", mid), token |-> gen_token(<<mid, 0>>)] :
        type \in Types}
    \cup {[state |-> "FAILED", ip |-> "", hostname |-> "",
           owner |-> "alice", type |-> type, shared_users |-> <<>>,
           name |-> mk_safe_machine_name("alice", mid), token |-> gen_token(<<mid, 0>>)] :
             type \in Types}

\* docker_get_container_by_ip: the containers of the network that have the
\* address
docker_get_container_by_ip(ip_address) ==
    {mid \in DOMAIN instances :
        instances[mid].running /\ instances[mid].ip = ip_address}

\* conn.lookupByName(vm_name), `openstack server delete <name>`
lookupByName(vm_name) ==
    {mid \in DOMAIN instances :
        instances[mid].running /\ instances[mid].name = vm_name}

\* The backend calls of a destroy thread and its commit. "stopped": the
\* instance was found and stopped; "error": it was found and the call
\* raised; "not_found": no instance was found, which the container thread
\* takes for done and the other two log as an error. All three go on to
\* state = DELETED and the commit.
Teardown(t, found) ==
    /\ \/ /\ found # {}
          /\ instances' = [mid \in DOMAIN instances |->
                              IF mid \in found
                              THEN [instances[mid] EXCEPT !.running = FALSE]
                              ELSE instances[mid]]
          /\ event' = Ev(t.fn, "-", t.mid, "stopped")
       \/ /\ found # {}
          /\ event' = Ev(t.fn, "-", t.mid, "error")
          /\ UNCHANGED instances
       \/ /\ found = {}
          /\ event' = Ev(t.fn, "-", t.mid, "not_found")
          /\ UNCHANGED instances
    /\ machines' = Commit(t.mid, t.row, [state |-> "DELETED"])
    /\ tasks' = Finish(t)
    /\ UNCHANGED <<phase, transfer, requests>>

docker_stop_container_backend(t) ==
    /\ t.fn = "docker_stop_container"
    /\ t.pc = "run"
    /\ Teardown(t, docker_get_container_by_ip(t.row.ip))

libvirt_stop_vm_backend(t) ==
    /\ t.fn = "libvirt_stop_vm"
    /\ t.pc = "run"
    /\ Teardown(t, lookupByName(t.row.name))

openstack_stop_vm_backend(t) ==
    /\ t.fn = "openstack_stop_vm"
    /\ t.pc = "run"
    /\ Teardown(t, lookupByName(t.row.name))

TeardownInit ==
    /\ machines \in {<<row>> : row \in RunningRows(1)}
    /\ tasks = EmptyBag
    /\ phase = "startup"
    /\ event = NoEvent
    /\ jobs = <<>>
    /\ copies = {}
    /\ written = <<>>
    /\ requests = {}
    /\ instances = [mid \in DOMAIN machines |->
                       [name |-> machines[mid].name, ip |-> Addr(mid), running |-> TRUE]]

TeardownNext ==
    \/ clean_up_db
    \/ restart
    \/ \E u \in Creators, machine_id \in FormIds, new \in NewNames :
          rename_machine(u, machine_id, new)
    \/ \E u \in Users, mid \in MIds : stop_machine(u, mid)
    \/ \E t \in Alive : load(t)
    \/ \E t \in Alive : docker_stop_container_backend(t)
    \/ \E t \in Alive : libvirt_stop_vm_backend(t)
    \/ \E t \in Alive : openstack_stop_vm_backend(t)

TeardownSpec == TeardownInit /\ [][TeardownNext]_vars

\* ---- the limits of a container ----

\* a limit that takes the gigabytes for megabytes
mem_limit_unconverted(mem_limit_gb) == Append(str(mem_limit_gb), "m")

\* mem_limit = f"{mem_limit_gb * 1024}m"
mem_limit(mem_limit_gb) == Append(str(mem_limit_gb * 1024), "m")

\* docker_start_container, from the template's limits to container_options
container_options(cpu_cores, mem_limit_gb) ==
    LET cpu_period == 100000
    IN [cpu_period |-> cpu_period,
        cpu_quota |-> cpu_period * cpu_cores,
        mem_limit |-> mem_limit(mem_limit_gb)]

\* the create thread of a docker template with the limits c and g works out
\* the options and logs them (logging.info(json.dumps(container_options)))
log_container_options(c, g) ==
    /\ event' = [op |-> "container_options", cpu_limit_cores |-> c,
                 memory_limit_gb |-> g, options |-> container_options(c, g)]
    /\ UNCHANGED <<machines, tasks, phase, transfer, outside>>

OptionsNext ==
    \E c \in 1..MaxCores, g \in 1..MaxMemoryGb : log_container_options(c, g)

OptionsSpec == Init /\ [][OptionsNext]_vars

\* ---- the volumes of the hypervisor backend ----
\* The names new_machine gives, from the user name and the time, and the
\* choice of volumes that libvirt_stop_vm deletes. virt-clone --auto-clone
\* names the disk of a clone after the clone, which is what the choice by
\* name is written for.

base_chars ==
    <<"0", "1", "2", "3", "4", "5", "6", "7", "8", "9",
      "A", "B", "C", "D", "E", "F", "G", "H", "I", "J", "K", "L", "M",
      "N", "O", "P", "Q", "R", "S", "T", "U", "V", "W", "X", "Y", "Z",
      "a", "b", "c", "d", "e", "f", "g", "h", "i", "j", "k", "l", "m",
      "n", "o", "p", "q", "r", "s", "t", "u", "v", "w", "x", "y", "z">>

\* six characters for the year (in steps of four), month, day, hour, minute
\* and second
encode_date_time(date_time) ==
    <<base_chars[((date_time.year % 100) \div 4) + 1],
      base_chars[(date_time.month - 1) + 1],
      base_chars[(date_time.day - 1) + 1],
      base_chars[date_time.hour + 1],
      base_chars[date_time.minute + 1],
      base_chars[date_time.second + 1]>>

\* mk_safe_machine_name(username) at the time date_time
mk_safe_machine_name_at(username, date_time) ==
    username \o <<"-">> \o encode_date_time(date_time)

\* `a in b` of two strings
in_str(a, b) ==
    \E i \in 0..(Len(b) - Len(a)) : SubSeq(b, i + 1, i + Len(a)) = a

\* the volume of the clone called name
vol_name(name) == name \o <<".", "q", "c", "o", "w", "2">>

\* the loop over the volumes of all pools: those it deletes
libvirt_delete_volumes(vm_name, volumes) ==
    {vol \in volumes : in_str(vm_name, vol.name)}

\* user names, of two to thirty-two characters
Usernames ==
    {<<"b", "o", "b">>, <<"j", "i", "m", "b", "o", "b">>,
     <<"a", "l", "i", "c", "e">>, <<"a", "l">>}

\* times at which a machine is made
DateTimes ==
    {[year |-> y, month |-> 11, day |-> 2, hour |-> 0, minute |-> 0, second |-> sec] :
        y \in {2024, 2026}, sec \in {1, 2}}

\* Two hypervisor machines made by the users u1 and u2 at the times d1 and d2
\* under different names, each with its domain and its volume; the destroy
\* thread of the first one finds its domain and goes through the volumes.
libvirt_stop_vm_volumes(u1, d1, u2, d2) ==
    LET vm_name == mk_safe_machine_name_at(u1, d1)
        other == mk_safe_machine_name_at(u2, d2)
        volumes == {[name |-> vol_name(vm_name), machine |-> 1],
                    [name |-> vol_name(other), machine |-> 2]}
    IN /\ vm_name # other
       /\ event' = [op |-> "libvirt_stop_vm.volumes", users |-> <<u1, u2>>,
                    times |-> <<d1, d2>>, vm_name |-> vm_name,
                    deleted |-> libvirt_delete_volumes(vm_name, volumes)]
       /\ UNCHANGED <<machines, tasks, phase, transfer, outside>>

VolumeNext ==
    \E u1, u2 \in Usernames, d1, d2 \in DateTimes : libvirt_stop_vm_volumes(u1, d1, u2, d2)

VolumeSpec == Init /\ [][VolumeNext]_vars

\* ---- the JSON field of the admin forms ----
\* A JSON value is a record with a tag t and a content v: null; a bool; an
\* int; a float (sign, whole part, digits of the fraction); a str (its
\* characters); a list (its items); a dict (its <<key, value>> pairs in the
\* order of insertion). Texts are sequences of characters.

None == [t |-> "null", v |-> <<>>]

\* ESCAPE_DCT of json.encoder, for the characters of the model
escape(ch) ==
    CASE ch = "\"" -> <<"\\", "\"">>
      [] ch = "\\" -> <<"\\", "\\">>
      [] ch = "\n" -> <<"\\", "n">>
      [] ch = "\t" -> <<"\\", "t">>
      [] ch = "\r" -> <<"\\", "r">>
      [] OTHER -> <<ch>>

RECURSIVE encode_basestring(_)
encode_basestring(chars) ==
    IF chars = <<>> THEN <<>>
    ELSE escape(Head(chars)) \o encode_basestring(Tail(chars))

\* int.__repr__
int_repr(n) == IF n < 0 THEN <<"-">> \o str(0 - n) ELSE str(n)

\* float.__repr__ of a float that is written without an exponent
float_repr(f) == (IF f[1] THEN <<"-">> ELSE <<>>) \o str(f[2]) \o <<".">> \o f[3]

\* the indentation of nesting level `level`, indent=4
newline_indent(level) == <<"\n">> \o [i \in 1..(4 * level) |-> " "]

\* json.dumps(o, indent=4) at nesting level `level`: a container that is not
\* empty has every item on a line of its own, one level deeper, the items
\* separated by "," and a key from its value by ": "
RECURSIVE dumps(_, _)
RECURSIVE dumps_list(_, _)
RECURSIVE dumps_dict(_, _)
dumps_list(items, level) ==
    newline_indent(level) \o dumps(Head(items), level)
    \o (IF Tail(items) = <<>> THEN <<>> ELSE <<",">> \o dumps_list(Tail(items), level))

dumps_dict(pairs, level) ==
    newline_indent(level)
    \o <<"\"">> \o encode_basestring(Head(pairs)[1]) \o <<"\"", ":", " ">>
    \o dumps(Head(pairs)[2], level)
    \o (IF Tail(pairs) = <<>> THEN <<>> ELSE <<",">> \o dumps_dict(Tail(pairs), level))

dumps(o, level) ==
    CASE o.t = "null" -> <<"n", "u", "l", "l">>
      [] o.t = "bool" -> IF o.v THEN <<"t", "r", "u", "e">> ELSE <<"f", "a", "l", "s", "e">>
      [] o.t = "int" -> int_repr(o.v)
      [] o.t = "float" -> float_repr(o.v)
      [] o.t = "str" -> <<"\"">> \o encode_basestring(o.v) \o <<"\"">>
      [] o.t = "list" ->
           IF o.v = <<>> THEN <<"[", "]">>
           ELSE <<"[">> \o dumps_list(o.v, level + 1) \o newline_indent(level) \o <<"]">>
      [] o.t = "dict" ->
           IF o.v = <<>> THEN <<"{", "}">>
           ELSE <<"{">> \o dumps_dict(o.v, level + 1) \o newline_indent(level) \o <<"}">>

\* json.loads: the scanner of json.decoder and json.scanner. A result is
\* the value and the index behind it, or a failure (JSONDecodeError).
DecodeError == [ok |-> FALSE, value |-> None, end |-> 0]

Decoded(value, end) == [ok |-> TRUE, value |-> value, end |-> end]

\* the character at index i, "" behind the end of the text
At(s, i) == IF i \in DOMAIN s THEN s[i] ELSE ""

isdigit(ch) == \E d \in DOMAIN Digits : Digits[d] = ch

RECURSIVE skip_whitespace(_, _)
skip_whitespace(s, i) ==
    IF At(s, i) \in {" ", "\t", "\n", "\r"} THEN skip_whitespace(s, i + 1) ELSE i

RECURSIVE digits_end(_, _)
digits_end(s, i) == IF isdigit(At(s, i)) THEN digits_end(s, i + 1) ELSE i

\* s[i:i+len(word)] == word
startswith(s, i, word) ==
    /\ i + Len(word) - 1 <= Len(s)
    /\ SubSeq(s, i, i + Len(word) - 1) = word

\* NUMBER_RE: -?(0|[1-9]\d*)(\.\d+)?, a float when it has a fraction
match_number(s, i) ==
    LET neg == At(s, i) = "-"
        start == IF neg THEN i + 1 ELSE i
        int_end == IF At(s, start) = "0" THEN start + 1 ELSE digits_end(s, start)
        frac_end == IF At(s, int_end) = "." THEN digits_end(s, int_end + 1) ELSE int_end
        whole == DecimalValue(SubSeq(s, start, int_end - 1))
    IN IF int_end = start
       THEN DecodeError
       ELSE IF frac_end > int_end + 1
       THEN Decoded([t |-> "float",
                     v |-> <<neg, whole, SubSeq(s, int_end + 1, frac_end - 1)>>], frac_end)
       ELSE Decoded([t |-> "int", v |-> IF neg THEN 0 - whole ELSE whole], int_end)

\* BACKSLASH of json.decoder, for the characters of the model
backslash(ch) ==
    CASE ch = "\"" -> "\""
      [] ch = "\\" -> "\\"
      [] ch = "/" -> "/"
      [] ch = "n" -> "\n"
      [] ch = "t" -> "\t"
      [] ch = "r" -> "\r"
      [] OTHER -> ""

\* py_scanstring from behind the opening quote; strict: no control
\* character in a string
RECURSIVE scanstring(_, _, _)
scanstring(s, i, chars) ==
    LET ch == At(s, i)
    IN IF ch = "" \/ ch \in {"\n", "\t", "\r"}
       THEN DecodeError
       ELSE IF ch = "\""
       THEN Decoded([t |-> "str", v |-> chars], i + 1)
       ELSE IF ch = "\\"
       THEN IF backslash(At(s, i + 1)) = ""
            THEN DecodeError
            ELSE scanstring(s, i + 2, Append(chars, backslash(At(s, i + 1))))
       ELSE scanstring(s, i + 1, Append(chars, ch))

\* dict(pairs): a key that comes again replaces the value
setitem(pairs, key, value) ==
    IF \E k \in DOMAIN pairs : pairs[k][1] = key
    THEN [k \in DOMAIN pairs |-> IF pairs[k][1] = key THEN <<key, value>> ELSE pairs[k]]
    ELSE Append(pairs, <<key, value>>)

RECURSIVE scan_once(_, _)
RECURSIVE JSONArray(_, _, _)
RECURSIVE JSONObject(_, _, _)
\* the items of an array from index i, behind "[" or "," and white space
JSONArray(s, i, values) ==
    LET r == scan_once(s, i)
        end == skip_whitespace(s, r.end)
    IN IF ~r.ok
       THEN DecodeError
       ELSE IF At(s, end) = "]"
       THEN Decoded([t |-> "list", v |-> Append(values, r.value)], end + 1)
       ELSE IF At(s, end) = ","
       THEN JSONArray(s, skip_whitespace(s, end + 1), Append(values, r.value))
       ELSE DecodeError

\* the pairs of an object from index i, behind "{" or "," and white space
JSONObject(s, i, pairs) ==
    LET key == scanstring(s, i + 1, <<>>)
        colon == skip_whitespace(s, key.end)
        r == scan_once(s, skip_whitespace(s, colon + 1))
        end == skip_whitespace(s, r.end)
    IN IF At(s, i) # "\"" \/ ~key.ok \/ At(s, colon) # ":"
       THEN DecodeError
       ELSE IF ~r.ok
       THEN DecodeError
       ELSE IF At(s, end) = "}"
       THEN Decoded([t |-> "dict", v |-> setitem(pairs, key.value.v, r.value)], end + 1)
       ELSE IF At(s, end) = ","
       THEN JSONObject(s, skip_whitespace(s, end + 1),
                       setitem(pairs, key.value.v, r.value))
       ELSE DecodeError

scan_once(s, i) ==
    LET ch == At(s, i)
    IN IF ch = "\"" THEN scanstring(s, i + 1, <<>>)
       ELSE IF ch = "{"
       THEN IF At(s, skip_whitespace(s, i + 1)) = "}"
            THEN Decoded([t |-> "dict", v |-> <<>>], skip_whitespace(s, i + 1) + 1)
            ELSE JSONObject(s, skip_whitespace(s, i + 1), <<>>)
       ELSE IF ch = "["
       THEN IF At(s, skip_whitespace(s, i + 1)) = "]"
            THEN Decoded([t |-> "list", v |-> <<>>], skip_whitespace(s, i + 1) + 1)
            ELSE JSONArray(s, skip_whitespace(s, i + 1), <<>>)
       ELSE IF startswith(s, i, <<"n", "u", "l", "l">>) THEN Decoded(None, i + 4)
       ELSE IF startswith(s, i, <<"t", "r", "u", "e">>)
       THEN Decoded([t |-> "bool", v |-> TRUE], i + 4)
       ELSE IF startswith(s, i, <<"f", "a", "l", "s", "e">>)
       THEN Decoded([t |-> "bool", v |-> FALSE], i + 5)
       ELSE match_number(s, i)

\* json.loads(s): one value with white space around it and nothing else
loads(s) ==
    LET r == scan_once(s, skip_whitespace(s, 1))
    IN IF r.ok /\ skip_whitespace(s, r.end) = Len(s) + 1 THEN r ELSE DecodeError

\* JsonTextAreaField.process_formdata: the data of the field, or a ValueError
process_formdata(valuelist) ==
    IF valuelist # <<>>
    THEN LET value == valuelist[1]
         IN IF value # <<>>
            THEN IF loads(value).ok
                 THEN [raised |-> FALSE, data |-> loads(value).value]
                 ELSE [raised |-> TRUE, data |-> None]
            ELSE [raised |-> FALSE, data |-> None]
    ELSE [raised |-> FALSE, data |-> None]

\* bool(o) of a JSON value
truthy(o) ==
    CASE o.t = "null" -> FALSE
      [] o.t = "bool" -> o.v
      [] o.t = "int" -> o.v # 0
      [] o.t = "float" -> ~(o.v[2] = 0 /\ \A i \in DOMAIN o.v[3] : o.v[3][i] = "0")
      [] OTHER -> o.v # <<>>

\* a field that renders every value that counts as false as the empty text
field_value_if_truthy(o) == IF truthy(o) THEN dumps(o, 0) ELSE <<>>

\* JsonTextAreaField._value: the text of the form field
field_value(o) == IF o # None THEN dumps(o, 0) ELSE <<>>

\* the values without a container
JsonScalars ==
    {None}
    \cup {[t |-> "bool", v |-> b] : b \in BOOLEAN}
    \cup {[t |-> "int", v |-> n] : n \in {0, 12, 0 - 3}}
    \cup {[t |-> "float", v |-> f] : f \in {<<FALSE, 0, <<"0">>>>, <<TRUE, 2, <<"0", "5">>>>}}
    \cup {[t |-> "str", v |-> chars] :
             chars \in {<<>>, <<"a">>, <<"\"", "\\">>, <<"a", "\n", "[">>, <<"n", "u", "l", "l">>}}

\* the values nested at most depth deep: the scalars, the empty containers
\* and, around every value o one level less deep, the lists [o] and
\* [o, null] and the dicts {"a": o} and {"": false, "a\"": o}
RECURSIVE JsonValues(_)
JsonValues(depth) ==
    IF depth = 0
    THEN JsonScalars
    ELSE LET inner == JsonValues(depth - 1)
         IN JsonScalars
            \cup {[t |-> "list", v |-> <<>>], [t |-> "dict", v |-> <<>>]}
            \cup {[t |-> "list", v |-> <<o>>] : o \in inner}
            \cup {[t |-> "list", v |-> <<o, None>>] : o \in inner}
            \cup {[t |-> "dict", v |-> <<<<<<"a">>, o>>>>] : o \in inner}
            \cup {[t |-> "dict", v |-> <<<<<<>>, [t |-> "bool", v |-> FALSE]>>,
                                        <<<<"a", "\"">>, o>>>>] : o \in inner}

\* the edit form of a row that has the value `data` in a JSON column
JsonInit ==
    /\ machines = <<>>
    /\ tasks = EmptyBag
    /\ phase = "serving"
    /\ event \in {[op |-> "edit_form", data |-> o] : o \in JsonValues(MaxJsonDepth)}
    /\ jobs = <<>>
    /\ copies = {}
    /\ written = <<>>
    /\ requests = {}
    /\ instances = <<>>

\* the form is rendered and posted back as it is
post_edit_form ==
    /\ event.op = "edit_form"
    /\ event' = [op |-> "post_edit_form", data |-> event.data,
                 text |-> field_value(event.data),
                 posted |-> process_formdata(<<field_value(event.data)>>)]
    /\ UNCHANGED <<machines, tasks, phase, transfer, outside>>

JsonNext == post_edit_form

JsonSpec == JsonInit /\ [][JsonNext]_vars

TypeOK ==
    /\ phase \in {"startup", "serving"}
    /\ Len(machines) <= MaxMachines + 1
    /\ \A mid \in DOMAIN machines : machines[mid].state \in MachineState
    /\ BagCardinality(tasks) <= MaxTasks
    /\ Len(jobs) <= MaxJobs
    /\ \A jid \in DOMAIN jobs : jobs[jid].state \in DataTransferJobState
    /\ \A c \in copies : c.jid \in DOMAIN jobs

HasStartTask(mid) == \E t \in TasksOf(mid) : t.fn \in StartFns

\* ---- C1 ----
Edges ==
    {<<"PROVISIONING", "READY">>, <<"PROVISIONING", "FAILED">>,
     <<"READY", "DELETING">>, <<"FAILED", "DELETING">>,
     <<"DELETING", "DELETED">>, <<"DELETING", "FAILED">>}

\* C1: every change of a machine's state is one of the six edges of the
\* lifecycle diagram.
C1_OnlyDiagramEdges ==
    [][\A mid \in DOMAIN machines :
          machines'[mid].state # machines[mid].state
          => <<machines[mid].state, machines'[mid].state>> \in Edges]_vars

\* ---- C2 ----
\* C2: at every moment at most one background thread is alive per machine.
C2_OneTaskPerMachine == \A mid \in MIds : NumTasksOf(mid) <= 1

\* ---- C3 ----
\* C3: when the create thread of a machine has ended, the machine is no longer
\* in PROVISIONING (a row that some other operation touched is never in
\* PROVISIONING, so this is the claim on the rows nothing else touched).
C3_CreateEndsTerminal ==
    (event.op \in StartFns /\ ~HasStartTask(event.mid))
    => machines[event.mid].state # "PROVISIONING"

\* ---- C4 ----
Polling(mid) ==
    \E t \in TasksOf(mid) :
        /\ t.fn \in {"libvirt_start_vm", "docker_start_container"}
        /\ t.pc \in {"wait_vm", "wait_ip"}

\* C4: a create thread that polls the hypervisor or the container engine for
\* the domain state or an address ends, also when the backend never answers.
C4_PollsTerminate == \A mid \in MIds : Polling(mid) ~> ~HasStartTask(mid)

\* ---- C5 ----
\* C5: after a timed-out volume or server poll the cloud create thread has
\* ended and the machine is FAILED.
C5_TimeoutIsFailure ==
    (event.op = "openstack_start_vm" /\ event.out \in {"volume_timeout", "server_timeout"})
    => /\ ~HasStartTask(event.mid)
       /\ machines[event.mid].state = "FAILED"

\* ---- C6 ----
\* C6: the startup pass leaves no machine in PROVISIONING; a machine whose
\* create thread was lost with the previous process is FAILED after it.
C6_RestartFailsProvisioning ==
    [][(phase = "startup" /\ phase' = "serving")
       => \A mid \in DOMAIN machines :
             /\ machines'[mid].state # "PROVISIONING"
             /\ machines[mid].state = "PROVISIONING" => machines'[mid].state = "FAILED"]_vars

C6_Witness ==
    /\ event.op = "clean_up_db"
    /\ event.out = "warning"
    /\ \E mid \in DOMAIN machines : machines[mid].state = "FAILED" /\ machines[mid].ip = ""

\* ---- C7 ----
\* C7: stop_machine by a user who is neither the owner nor an administrator
\* answers 403, changes no machine and starts no thread.
C7_ForbiddenStopChangesNothing ==
    [][(/\ event'.op = "stop_machine"
        /\ event'.mid \in DOMAIN machines
        /\ ~is_admin(event'.user)
        /\ event'.user # machines[event'.mid].owner)
       => /\ event'.out = "403"
          /\ machines' = machines
          /\ tasks' = tasks]_vars

C7_Witness ==
    /\ event.op = "stop_machine"
    /\ event.out = "403"
    /\ machines[event.mid].state = "READY"
    /\ event.user \notin {"admin", machines[event.mid].owner}

\* ---- C8 ----
\* C8: a destroy thread whose backend call failed leaves the machine FAILED.
C8_FailedDestroyIsFailed ==
    (event.op \in StopFns /\ event.out = "error")
    => machines[event.mid].state = "FAILED"

\* ---- C9 ----
\* C9 as claimed: a machine whose ip is empty is in PROVISIONING.
C9_EmptyIpOnlyProvisioning ==
    \A mid \in DOMAIN machines :
        machines[mid].ip = "" => machines[mid].state = "PROVISIONING"

\* C9 as amended: a machine whose ip is empty is never READY (it is in
\* PROVISIONING, FAILED, DELETING or DELETED).
C9_EmptyIpNeverReady ==
    \A mid \in DOMAIN machines :
        machines[mid].ip = "" => machines[mid].state # "READY"

C9_Witness ==
    /\ event.op = "docker_start_container"
    /\ event.out = "error"
    /\ machines[event.mid].state = "FAILED"
    /\ machines[event.mid].ip = ""

\* ---- C10 ----
\* C10: when the reverse lookup fails in a create thread that has its
\* address, the machine becomes READY with the address and hostname "".
C10_LookupFailureNotFatal ==
    (event.op = "openstack_start_vm" /\ event.out = "dns_error")
    => /\ machines[event.mid].state = "READY"
       /\ machines[event.mid].hostname = ""
       /\ machines[event.mid].ip # ""

\* ---- C11 ----
\* the state a handler commits before it starts the thread fn
Transient(fn) == IF fn \in StartFns THEN "PROVISIONING" ELSE "DELETING"

\* C11: in the state in which a thread first exists, the row it was started
\* for shows the transient state of its handler: PROVISIONING for a create
\* thread, DELETING for a destroy thread, RUNNING for a copy thread.
C11_StateBeforeThread ==
    [][/\ \A t \in BagToSet(tasks') :
             (CopiesIn(t, tasks') > CopiesIn(t, tasks) /\ t.pc = "load")
             => /\ t.mid \in DOMAIN machines'
                /\ machines'[t.mid].state = Transient(t.fn)
       /\ \A c \in copies' \ copies :
             c.pc = "load"
             => /\ c.jid \in DOMAIN jobs'
                /\ jobs'[c.jid].state = "RUNNING"]_vars

C11_Witness ==
    /\ event.op = "stop_machine"
    /\ event.out = "302"
    /\ machines[event.mid].state = "DELETING"
    /\ \E t \in TasksOf(event.mid) : t.fn \in StopFns /\ t.pc = "load"
    /\ \E c \in copies : c.pc = "load" /\ jobs[c.jid].state = "RUNNING"

\* ---- C12 ----
\* the threads of machine mid among the threads B
ThreadsOf(B, mid) ==
    [t \in {x \in BagToSet(B) : x.mid = mid} |-> CopiesIn(t, B)]

\* the assignments a create thread can still commit; none when its backend
\* never answers, so that it never ends
Commits(t) ==
    IF t.net \in {"noip", "stuck"} THEN {}
    ELSE CASE t.fn = "docker_start_container" ->
                  {docker_ready(Addr(t.mid)), docker_failed}
           [] t.fn = "libvirt_start_vm" ->
                  {libvirt_ready(Addr(t.mid)), libvirt_failed}
           [] t.fn = "openstack_start_vm" ->
                  {openstack_ready(Addr(t.mid), HostOf(Addr(t.mid))),
                   openstack_failed(Addr(t.mid)), openstack_failed("")}

\* the rows in which `row` can be once the threads B, run in any order and
\* with no further request, have all ended: a destroy thread loads the row
\* and then commits DELETED, a create thread commits one of Commits(t) or,
\* for the cloud thread before its first backend call, returns
RECURSIVE Settled(_, _)
Settled(row, B) ==
    IF B = EmptyBag THEN {row}
    ELSE UNION {
        LET R == B (-) SetToBag({t})
            loaded == IF t.pc = "load" THEN Columns(t.fn, row) ELSE t.row
        IN IF t.fn \in StopFns
           THEN IF t.pc = "load"
                THEN Settled(row, R (+) SetToBag({[t EXCEPT !.pc = "run", !.row = loaded]}))
                ELSE Settled(Flush(row, loaded, [state |-> "DELETED"]), R)
           ELSE UNION {Settled(Flush(row, loaded, assigned), R) : assigned \in Commits(t)}
                \cup (IF t.fn = "openstack_start_vm" /\ t.pc = "load"
                      THEN Settled(row, R) ELSE {})
        : t \in BagToSet(B)}

SettledStates(row, B) == {r.state : r \in Settled(row, B)}

\* the machine is DELETED, or DELETING with a destroy thread at work
AlreadyStopped(mid) ==
    \/ machines[mid].state = "DELETED"
    \/ /\ machines[mid].state = "DELETING"
       /\ \E t \in TasksOf(mid) : t.fn \in StopFns

\* C12: stop_machine by the owner or an administrator for a machine that is
\* already DELETED or DELETING is accepted, and the states in which the
\* machine can be once every thread has ended are the same after the request
\* as before it.
C12_RepeatedStopIdempotent ==
    [][\A u \in Users, mid \in DOMAIN machines :
          (stop_machine(u, mid) /\ may_stop(u, machines[mid]) /\ AlreadyStopped(mid))
          => /\ event'.out = "302"
             /\ SettledStates(machines'[mid], ThreadsOf(tasks', mid))
                  = SettledStates(machines[mid], ThreadsOf(tasks, mid))]_vars

\* ---- C13 ----
\* the user may use the data source and the machine: both exist and the user
\* is an administrator, or has the source and owns or was shared the machine
Accessible(u, ds, mid) ==
    /\ ds \in DataSources
    /\ Exists(mid)
    /\ \/ is_admin(u)
       \/ /\ ds \in data_sources(u)
          /\ machines[mid].owner = u \/ In(u, machines[mid].shared_users)

\* an administrator's request for any data source and a READY machine is
\* accepted
AdminUsesAnySource(u, ds, mid) ==
    (is_admin(u) /\ Accessible(u, ds, mid) /\ machines[mid].state = "READY")
    => event'.out = "302" /\ Len(jobs') = Len(jobs) + 1

C14_JobsOnlyForReady ==
    [][/\ \A jid \in DOMAIN jobs' \ DOMAIN jobs :
             /\ Exists(jobs'[jid].machine)
             /\ machines[jobs'[jid].machine].state = "READY"
       /\ (/\ event'.op = "data"
           /\ Exists(event'.mid)
           /\ machines[event'.mid].state # "READY"
           /\ \E ds \in SourceIds : data(event'.user, ds, event'.mid))
          => UNCHANGED <<jobs, copies>>]_vars

C14_Witness ==
    /\ event.op = "data"
    /\ event.out = "invalid"
    /\ Exists(event.mid)
    /\ event.user = machines[event.mid].owner
    /\ machines[event.mid].state = "DELETED"
    /\ jobs = <<>>

\* ---- C15 ----
\* C15: a dismiss request by a user who is not the job's owner leaves the job
\* unchanged.
C15_OnlyOwnerDismisses ==
    [][(/\ event'.op = "dismiss_datatransferjob"
        /\ dismiss_datatransferjob(event'.user, event'.mid)
        /\ event'.mid \in DOMAIN jobs
        /\ event'.user # jobs[event'.mid].user)
       => jobs' = jobs]_vars

\* ---- C16 ----
\* C16: a dismiss request makes the job HIDDEN and changes no other field, and
\* a dismiss request for a job that is HIDDEN already answers OK and changes
\* nothing.
C16_DismissTwice ==
    [][(/\ event'.op = "dismiss_datatransferjob"
        /\ dismiss_datatransferjob(event'.user, event'.mid)
        /\ event'.mid \in DOMAIN jobs)
       => LET jid == event'.mid
          IN /\ event'.out = "OK"
             /\ jobs' = [jobs EXCEPT ![jid].state = "HIDDEN"]
             /\ copies' = copies
             /\ jobs[jid].state = "HIDDEN" => jobs' = jobs]_vars

\* the last step was a dismissal of a job that a copy thread had already
\* loaded as HIDDEN: the second dismissal of that job
C16_Witness ==
    /\ event.op = "dismiss_datatransferjob"
    /\ event.out = "OK"
    /\ jobs[event.mid].state = "HIDDEN"
    /\ \E c \in copies : c.jid = event.mid /\ c.row.state = "HIDDEN"

\* ---- C17 ----
\* C17: a dismissal does not stop the copy thread, and a job that is HIDDEN
\* stays HIDDEN and off its user's job list, also when its copy thread
\* finishes.
C17_HiddenStaysHidden ==
    [][/\ (/\ event'.op = "dismiss_datatransferjob"
           /\ dismiss_datatransferjob(event'.user, event'.mid))
          => copies' = copies
       /\ \A jid \in DOMAIN jobs :
             jobs[jid].state = "HIDDEN"
             => /\ jobs'[jid].state = "HIDDEN"
                /\ jid \notin sorted_jobs(jobs[jid].user)']_vars

\* ---- C18 ----
\* C18: no job is ever written both DONE and FAILED.
C18_OneOutcome == \A jid \in DOMAIN written : Cardinality(written[jid]) <= 1

\* a finished job went through a restart and its startup pass
C18_Witness ==
    /\ event.op = "clean_up_db"
    /\ \E jid \in DOMAIN jobs : written[jid] = {"DONE"} /\ jobs[jid].state = "HIDDEN"

\* ---- C19 ----
\* C19: when the copy thread has ended the job is DONE if the remote command
\* exited with 0 and FAILED otherwise; it is not RUNNING.
C19_OutcomeFollowsExit ==
    event.op = "start_data_transfer"
    => /\ jobs[event.mid].state = IF event.out = "0" THEN "DONE" ELSE "FAILED"
       /\ \A c \in copies : c.jid # event.mid

C19_Witness ==
    /\ event.op = "start_data_transfer"
    /\ event.out = "255"
    /\ jobs[event.mid].state = "FAILED"

\* ---- C20 ----
\* C20: when the copy thread has ended the job's finish_date is the time of
\* completion.
C20_FinishDateSet ==
    event.op = "start_data_transfer" => jobs[event.mid].finish_date = "completion"

\* ---- C21 ----
\* C21: no step moves an existing machine into PROVISIONING: a row that has
\* left PROVISIONING never has it again, and a new row comes from new_machine
\* only.
C21_NeverBackToProvisioning ==
    [][/\ \A mid \in DOMAIN machines :
             /\ mid \in DOMAIN machines'
             /\ machines[mid].state # "PROVISIONING"
                => machines'[mid].state # "PROVISIONING"
       /\ \A mid \in DOMAIN machines' \ DOMAIN machines :
             /\ event'.op = "new_machine"
             /\ machines'[mid].state = "PROVISIONING"]_vars

\* a create thread has committed its result on a machine that a stop request
\* had moved on already and whose destroy thread has loaded the row
C21_Witness ==
    /\ event.op \in StartFns
    /\ machines[event.mid].state \in {"READY", "FAILED"}
    /\ \E t \in TasksOf(event.mid) : t.fn \in StopFns /\ t.pc = "run"

\* ---- C22 ----
\* C22: a rename_machine, share_accept or share_revoke request, accepted or
\* not, leaves the state, ip and hostname of every machine as they were.
C22_StateIpHostnameKept ==
    [][event'.op \in {"rename_machine", "share_accept", "share_revoke"}
       => /\ DOMAIN machines' = DOMAIN machines
          /\ \A mid \in DOMAIN machines :
                /\ machines'[mid].state = machines[mid].state
                /\ machines'[mid].ip = machines[mid].ip
                /\ machines'[mid].hostname = machines[mid].hostname]_vars

\* a machine in DELETING was renamed
C22_Witness ==
    /\ event.op = "rename_machine"
    /\ event.out = "302"
    /\ machines[event.mid].state = "DELETING"
    /\ machines[event.mid].name = <<"w", "e", "b", "1">>

\* ---- C23 ----
\* machine mid held the token tk before its shares were last revoked
Earlier(tk, mid) == tk[1] = mid /\ tk[2] < machines[mid].token[2]

\* C23: share_revoke by the owner empties shared_users and replaces the
\* token, and share_accept with a token the machine held before a revocation
\* answers 404 and adds no user.
C23_RevokeInvalidates ==
    [][/\ (/\ event'.op = "share_revoke"
           /\ Exists(event'.mid)
           /\ event'.user = machines[event'.mid].owner)
          => /\ event'.out = "302"
             /\ machines'[event'.mid].shared_users = <<>>
             /\ machines'[event'.mid].token # machines[event'.mid].token
             /\ machines[event'.mid].token[1] = event'.mid
             /\ machines[event'.mid].token[2] < machines'[event'.mid].token[2]
       /\ (/\ event'.op = "share_accept"
           /\ \E mid \in DOMAIN machines : Earlier(event'.token, mid))
          => /\ event'.out = "404"
             /\ machines' = machines]_vars

\* bob followed the first share link of a machine after its owner had
\* revoked the shares
C23_Witness ==
    /\ event.op = "share_accept"
    /\ event.user = "bob"
    /\ event.out = "404"
    /\ event.token = <<1, 1>>
    /\ machines[1].token = <<1, 2>>
    /\ machines[1].shared_users = <<>>

\* ---- C24 ----
\* C24: a name changes only in a rename request of the machine's owner; a
\* rename request of another user leaves the name as it was.
C24_OnlyOwnerRenames ==
    [][\A mid \in DOMAIN machines :
          machines'[mid].name # machines[mid].name
          => /\ event'.op = "rename_machine"
             /\ event'.mid = mid
             /\ event'.user = machines[mid].owner]_vars

\* ---- C25 ----
\* C25: the startup pass leaves every machine that is not in PROVISIONING as
\* it is, a machine in DELETING included, and starts no thread.
C25_CleanUpOnlyProvisioning ==
    [][(phase = "startup" /\ phase' = "serving")
       => /\ tasks' = tasks
          /\ DOMAIN machines' = DOMAIN machines
          /\ \A mid \in DOMAIN machines :
                machines[mid].state # "PROVISIONING" => machines'[mid] = machines[mid]]_vars

C25_Witness ==
    /\ event.op = "clean_up_db"
    /\ tasks = EmptyBag
    /\ \E mid \in DOMAIN machines : machines[mid].state = "DELETING"

\* ---- C26 ----
\* C26: an accepted new_machine request starts exactly one create thread for
\* the new machine, the one of the template's kind, and an accepted
\* stop_machine request exactly one destroy thread, chosen the same way.
C26_OneTaskPerRequest ==
    [][/\ (event'.op = "new_machine" /\ event'.out = "302")
          => /\ machines'[event'.mid].state = "PROVISIONING"
             /\ machines'[event'.mid].type \in Types
             /\ tasks' = tasks (+) SetToBag(
                    {NewTask(StartFnOf(machines'[event'.mid].type), event'.mid)})
       /\ (event'.op = "stop_machine" /\ event'.out = "302")
          => /\ machines'[event'.mid].state = "DELETING"
             /\ machines[event'.mid].type \in Types
             /\ tasks' = tasks (+) SetToBag(
                    {NewTask(StopFnOf(machines[event'.mid].type), event'.mid)})]_vars

\* ---- C27 ----
\* the step ends a thread of fn-set F for machine event'.mid
Ends(F) ==
    /\ event'.op \in F
    /\ BagCardinality(tasks') < BagCardinality(tasks)

\* C27: a stop request accepted while the create thread of the machine is
\* alive leaves that thread alive; the create thread, when it ends on a
\* machine that a stop request has moved on, leaves the state it wrote, READY
\* or FAILED; a destroy thread that ends while the create thread is alive
\* leaves DELETED.
C27_BothWriteLastWins ==
    [][/\ (event'.op = "stop_machine" /\ event'.out = "302")
          => \A t \in Alive : CopiesIn(t, tasks') >= CopiesIn(t, tasks)
       /\ (/\ Ends(StartFns)
           /\ \/ machines[event'.mid].state \in {"DELETING", "DELETED"}
              \/ \E t \in TasksOf(event'.mid) : t.fn \in StopFns)
          => machines'[event'.mid].state
               = IF event'.out = "ready" THEN "READY" ELSE "FAILED"
       /\ (Ends(StopFns) /\ HasStartTask(event'.mid))
          => machines'[event'.mid].state = "DELETED"]_vars

\* ---- C28 ----
\* C28: a machine leaves FAILED only in the step of an accepted stop request
\* for it, and a thread is started only by an accepted new_machine or
\* stop_machine request, one thread for the machine of the request.
C28_NoRetry ==
    [][/\ \A mid \in DOMAIN machines :
             (machines[mid].state = "FAILED" /\ machines'[mid].state # "FAILED")
             => /\ event'.op = "stop_machine"
                /\ event'.out = "302"
                /\ event'.mid = mid
       /\ \A t \in BagToSet(tasks') :
             (t.pc = "load" /\ CopiesIn(t, tasks') > CopiesIn(t, tasks))
             => /\ event'.op \in {"new_machine", "stop_machine"}
                /\ event'.out = "302"
                /\ t.mid = event'.mid
                /\ BagCardinality(tasks') = BagCardinality(tasks) + 1]_vars

\* ---- C29 ----
\* C29: for a template with c cores and g gigabytes the container gets
\* cpu_period 100000, cpu_quota 100000 * c and a mem_limit that reads as the
\* decimal number g * 1024, without a leading zero, followed by "m"; for
\* c = 4 and g = 16 that is 400000 and "16384m".
C29_ContainerLimits ==
    event.op = "container_options"
    => LET c == event.cpu_limit_cores
           g == event.memory_limit_gb
           o == event.options
           number == SubSeq(o.mem_limit, 1, Len(o.mem_limit) - 1)
       IN /\ o.cpu_period = 100000
          /\ o.cpu_quota = 100000 * c
          /\ o.mem_limit[Len(o.mem_limit)] = "m"
          /\ ~int(number).raised
          /\ int(number).value = g * 1024
          /\ number[1] # "0"
          /\ (c = 4 /\ g = 16)
             => /\ o.cpu_quota = 400000
                /\ o.mem_limit = <<"1", "6", "3", "8", "4", "m">>

C29_Witness ==
    /\ event.op = "container_options"
    /\ event.cpu_limit_cores = 4
    /\ event.memory_limit_gb = 16
    /\ event.options.mem_limit = <<"1", "6", "3", "8", "4", "m">>
    /\ event.options.cpu_quota = 400000

\* ---- C30 ----
\* C30: a machine that is READY has an address, and the step that makes a
\* machine READY is the successful end of its create thread, which writes the
\* address (and for the cloud backend the host name) in that same step.
C30_ReadyWithAddress ==
    [][\A mid \in DOMAIN machines' :
          machines'[mid].state = "READY"
          => /\ machines'[mid].ip # ""
             /\ (mid \in DOMAIN machines /\ machines[mid].state # "READY")
                => /\ event'.op = StartFnOf(machines[mid].type)
                   /\ event'.out = "ready"
                   /\ event'.mid = mid
                   /\ machines'[mid].ip = Addr(mid)
                   /\ machines[mid].type = "openstack"
                      => machines'[mid].hostname = HostOf(Addr(mid))]_vars

\* a libvirt machine became READY while a destroy thread was at work on it
C30_Witness ==
    /\ event.op = "libvirt_start_vm"
    /\ event.out = "ready"
    /\ machines[event.mid].state = "READY"
    /\ machines[event.mid].ip = Addr(event.mid)
    /\ \E t \in TasksOf(event.mid) : t.fn \in StopFns

\* ---- C31 ----
\* C31: when the address poll of the cloud create thread times out, the
\* thread has ended and the machine is FAILED with no address.
C31_AddressTimeoutFails ==
    (event.op = "openstack_start_vm" /\ event.out = "ip_timeout")
    => /\ ~HasStartTask(event.mid)
       /\ machines[event.mid].state = "FAILED"
       /\ machines[event.mid].ip = ""
       /\ machines[event.mid].hostname = ""

\* the poll timed out on a machine that a stop request had put in DELETING
C31_Witness ==
    /\ event.op = "openstack_start_vm"
    /\ event.out = "ip_timeout"
    /\ machines[event.mid].state = "FAILED"
    /\ \E t \in TasksOf(event.mid) : t.fn = "openstack_stop_vm"

\* ---- C33 ----
\* C33: after an accepted stop request the machine can come to rest, once
\* all its threads have ended, in DELETED or FAILED only.
C33_StoppedNeverRestsReady ==
    [][(event'.op = "stop_machine" /\ event'.out = "302")
       => SettledStates(machines'[event'.mid], ThreadsOf(tasks', event'.mid))
            \subseteq {"DELETED", "FAILED"}]_vars

\* ---- C36 ----
\* C36: the startup pass sets every RUNNING transfer to FAILED and leaves the
\* transfers in every other state as they are, and a second pass over the
\* tables it leaves would change neither a machine nor a transfer.
C36_CleanUpJobsOnce ==
    [][event'.op = "clean_up_db"
       => /\ DOMAIN jobs' = DOMAIN jobs
          /\ \A jid \in DOMAIN jobs :
                /\ jobs[jid].state = "RUNNING"
                   => jobs'[jid] = [jobs[jid] EXCEPT !.state = "FAILED"]
                /\ jobs[jid].state # "RUNNING" => jobs'[jid] = jobs[jid]
                /\ clean_up_job(jobs'[jid]) = jobs'[jid]
          /\ \A mid \in DOMAIN machines' :
                clean_up_row(machines'[mid]) = machines'[mid]]_vars

\* the pass has just failed a transfer that was RUNNING when the process
\* stopped
C36_Witness ==
    /\ event.op = "clean_up_db"
    /\ \E jid \in DOMAIN jobs :
          /\ jobs[jid].state = "FAILED"
          /\ written[jid] = {"FAILED"}

\* ---- C37 ----
\* C37: while the process is starting up it has no thread and no transfer
\* running and does nothing but the startup pass, and the pass changes no
\* machine that has a thread and no transfer that has a copy running.
C37_RecoveryBeforeService ==
    [][phase = "startup"
       => /\ tasks = EmptyBag
          /\ copies = {}
          /\ event'.op = "clean_up_db"
          /\ \A mid \in DOMAIN machines :
                machines'[mid] # machines[mid] => TasksOf(mid) = {}
          /\ \A jid \in DOMAIN jobs :
                jobs'[jid] # jobs[jid] => ~\E c \in copies : c.jid = jid]_vars

\* the pass has failed the machine of a create thread that the previous
\* process had started
C37_Witness ==
    /\ event.op = "clean_up_db"
    /\ event.out = "warning"
    /\ phase = "serving"
    /\ tasks = EmptyBag
    /\ \E mid \in MIds : machines[mid].state = "FAILED"

\* ---- C38 ----
\* C38: when the container create thread fails, whether before the container
\* exists, or later with a clean-up that works or one that raises, the thread
\* has ended and the machine is FAILED with an empty address.
C38_FailedCreateIsCommitted ==
    (/\ event.op = "docker_start_container"
     /\ event.out \in {"error", "cleaned", "cleanup_error"})
    => /\ ~HasStartTask(event.mid)
       /\ machines[event.mid].state = "FAILED"
       /\ machines[event.mid].ip = ""

\* the clean-up of a failed create raised, after a stop request had put the
\* machine in DELETING
C38_Witness ==
    /\ event.op = "docker_start_container"
    /\ event.out = "cleanup_error"
    /\ machines[event.mid].state = "FAILED"
    /\ \E t \in TasksOf(event.mid) : t.fn = "docker_stop_container"

\* ---- C39 ----
\* C39: shared_users never holds the owner and holds no user twice; a share
\* link followed by the owner or by a user who has the machine already
\* changes nothing, and neither does a revocation asked by another user than
\* the owner.
C39_SharesWellFormed ==
    [][/\ \A mid \in DOMAIN machines' :
             LET list == machines'[mid].shared_users
             IN /\ ~In(machines'[mid].owner, list)
                /\ \A i, j \in DOMAIN list : list[i] = list[j] => i = j
       /\ (/\ event'.op = "share_accept"
           /\ Exists(event'.mid)
           /\ \/ event'.user = machines[event'.mid].owner
              \/ In(event'.user, machines[event'.mid].shared_users))
          => /\ event'.out \in {"own", "already"}
             /\ machines' = machines
       /\ (/\ event'.op = "share_revoke"
           /\ Exists(event'.mid)
           /\ event'.user # machines[event'.mid].owner)
          => /\ event'.out = "refused"
             /\ machines' = machines]_vars

\* bob followed the share link of a machine a second time, after the
\* administrator had joined it
C39_Witness ==
    /\ event.op = "share_accept"
    /\ event.user = "bob"
    /\ event.out = "already"
    /\ machines[event.mid].shared_users = <<"bob", "admin">>

\* ---- C35 ----
\* C35: the hypervisor teardown of a machine deletes volumes of that machine
\* only, whatever the name of the machine next to it.
C35_OnlyOwnVolumes ==
    event.op = "libvirt_stop_vm.volumes"
    => \A vol \in event.deleted : vol.machine = 1

\* ---- C40 ----
\* C40: rename requests keep the names of the machines pairwise distinct, and
\* a request for a name that a machine holds is refused and changes nothing.
NamesDistinct(table) ==
    \A m1, m2 \in DOMAIN table : table[m1].name = table[m2].name => m1 = m2

C40_NamesStayDistinct ==
    [][/\ NamesDistinct(machines) => NamesDistinct(machines')
       /\ (event'.op = "rename_machine" /\ event'.out = "302")
          => \A mid \in DOMAIN machines :
                machines[mid].name # machines'[event'.mid].name]_vars

\* ---- C34 ----
\* C34: when a destroy thread whose backend calls did not raise on an
\* instance leaves a machine DELETED, the instance of the machine no longer
\* runs.
C34_DeletedMeansStopped ==
    (/\ event.op \in StopFns
     /\ event.out # "error"
     /\ machines[event.mid].state = "DELETED")
    => ~instances[event.mid].running

\* ---- C32 ----
\* C32: the text that the JSON field renders for a value is parsed back to
\* the same value, for None and for every nested value.
C32_JsonRoundTrip ==
    event.op = "post_edit_form"
    => /\ ~event.posted.raised
       /\ event.posted.data = event.data

\* a dict in a list came back, with a quote in a key and a line break in a
\* string
C32_Witness ==
    /\ event.op = "post_edit_form"
    /\ event.data = [t |-> "list",
                     v |-> <<[t |-> "dict",
                              v |-> <<<<<<>>, [t |-> "bool", v |-> FALSE]>>,
                                      <<<<"a", "\"">>,
                                        [t |-> "str", v |-> <<"a", "\n", "[">>]>>>>],
                             None>>]
    /\ event.posted.data = event.data

====
